---- MODULE Spec2Model ----
(***************************************************************************)
(* Model of tcga_gdc_legacy_mafs.py: main() lists the projects of the GDC  *)
(* Legacy Archive, keeps those whose identifier starts with "TCGA-",       *)
(* searches the open-access MAF files of a project, prints one line per    *)
(* file and, with --download, streams each file to mafs/<project>/<name>   *)
(* through download_file().                                                *)
(*                                                                         *)
(* Python strings are modelled as sequences of tokens (one character, or   *)
(* one literal that is never looked into), so that startswith, join,       *)
(* dirname and + are computed, not assumed.  A JSON document is a record;  *)
(* a document or hit without an expected key is a record without that      *)
(* field, and subscripting it raises KeyError.                             *)
(***************************************************************************)
EXTENDS Naturals, Sequences, FiniteSets, TLC

VARIABLES
    download,        \* args['download']
    server,          \* the archive's data endpoint: file_id -> chunks of its body
    pc,              \* position of the process in main / download_file
    stack,           \* return positions of the calls in progress
    raised_at,       \* position at which the uncaught exception was raised ("" if none)
    response,        \* main: the parsed body of the last POST response
    proj_ids,        \* main: proj_ids
    pi,              \* main: index of the project loop in proj_ids
    proj_id,         \* main: proj_id
    hits,            \* main: the list iterated by the loop of line 54
    mi,              \* main: index of the file loop in hits
    maf,             \* main: maf
    file_id,         \* download_file: file_id
    filepath,        \* download_file: filepath
    directory,       \* download_file: directory
    stream,          \* download_file: chunks response.iter_content has yet to yield
    dirs,            \* file system: the directories that exist
    files,           \* file system: path -> bytes of the regular files that exist
    open_fhs,        \* file objects that are open, in opening order
    open_responses,  \* streamed responses that are not closed, in opening order
    trace            \* everything the process did to the outside, in order

vars == << download, server, pc, stack, raised_at, response, proj_ids, pi, proj_id,
           hits, mi, maf, file_id, filepath, directory, stream, dirs, files,
           open_fhs, open_responses, trace >>

mainVars == << response, proj_ids, pi, proj_id, hits, mi, maf >>
dlVars   == << file_id, filepath, directory, stream >>
fsVars   == << dirs, files, open_fhs >>

----------------------------------------------------------------------------
(* Bounds of the model. *)

MaxProjects == 2     \* longest project list the server returns
MaxHits     == 2     \* longest list of file records the server returns
MaxChunks   == 3     \* longest chunk stream of a standalone download

----------------------------------------------------------------------------
(* Literals of the program. *)

proj_ep == "https://gdc-api.nci.nih.gov/legacy/projects/"
file_ep == "https://gdc-api.nci.nih.gov/legacy/files/"
data_ep == << "https://gdc-api.nci.nih.gov/legacy/data/" >>
TCGA    == << "T", "C", "G", "A", "-" >>
mafs    == << "mafs" >>
TAB     == << "\t" >>
SEP     == << "/" >>

----------------------------------------------------------------------------
(* String functions. *)

upper(c) == IF c = "t" THEN "T" ELSE IF c = "c" THEN "C" ELSE IF c = "g" THEN "G"
            ELSE IF c = "a" THEN "A" ELSE c

\* s.upper().startswith(p): a prefix test that ignores case
startswith_nocase(s, p) == /\ Len(s) >= Len(p)
                           /\ \A i \in 1..Len(p) : upper(s[i]) = p[i]

\* s.startswith(p)
startswith(s, p) == /\ Len(s) >= Len(p)
                    /\ \A i \in 1..Len(p) : s[i] = p[i]

\* sep.join(parts)
RECURSIVE join(_, _)
join(sep, parts) ==
    IF parts = << >> THEN << >>
    ELSE IF Len(parts) = 1 THEN parts[1]
    ELSE parts[1] \o sep \o join(sep, Tail(parts))

\* s.rfind('/') + 1: the length of s up to and including its last slash
rfind1(s) == IF \E i \in 1..Len(s) : s[i] = "/"
             THEN CHOOSE i \in 1..Len(s) :
                      /\ s[i] = "/"
                      /\ \A j \in (i+1)..Len(s) : s[j] # "/"
             ELSE 0

\* s.rstrip('/')
RECURSIVE rstrip(_)
rstrip(s) == IF s # << >> /\ s[Len(s)] = "/" THEN rstrip(SubSeq(s, 1, Len(s) - 1)) ELSE s

\* os.path.dirname(p) of posixpath
dirname(p) ==
    LET head == SubSeq(p, 1, rfind1(p))
    IN  IF head # << >> /\ \E i \in 1..Len(head) : head[i] # "/"
        THEN rstrip(head) ELSE head

\* os.path.exists(p)
exists(p) == p \in dirs \/ p \in DOMAIN files

\* p and the directories above it, as os.makedirs walks them
RECURSIVE ancestors(_)
ancestors(p) == IF p = << >> THEN {} ELSE {p} \cup ancestors(dirname(p))

\* b''.join(chunks)
RECURSIVE concat(_)
concat(chunks) == IF chunks = << >> THEN << >> ELSE Head(chunks) \o concat(Tail(chunks))

\* sequences over S of length at most n
SeqUpTo(S, n) == UNION { [1..k -> S] : k \in 0..n }

----------------------------------------------------------------------------
(* What the archive may answer, and the file system the run may start on.  *)

None == [unset |-> TRUE]                   \* a variable not yet assigned
Malformed == [message |-> "error"]         \* a body without the 'data' key

ProjectPool == { TCGA \o << "A" >>,                   \* "TCGA-A"
                 TCGA \o << "B" >>,                   \* "TCGA-B"
                 << "t", "c", "g", "a", "-", "A" >>,  \* "tcga-A"
                 << "T", "C", "G", "A" >> }           \* "TCGA"

\* hits of the project endpoint; the last one lacks 'project_id'
ProjectHits == { [project_id |-> p] : p \in ProjectPool } \cup { [id |-> "0"] }

ProjectResponses ==
    { [data |-> [hits |-> h]] : h \in SeqUpTo(ProjectHits, MaxProjects) } \cup { Malformed }

\* hits of the file endpoint; the last one lacks 'file_name'
FileHits == { [file_id |-> << "1" >>, file_name |-> << "x" >>],
              [file_id |-> << "2" >>, file_name |-> << "d", "/", "y" >>],
              [file_id |-> << "3" >>, file_name |-> << "d" >>],
              [file_id |-> << "4" >>] }

FileResponses ==
    { [data |-> [hits |-> h]] : h \in SeqUpTo(FileHits, MaxHits) } \cup { Malformed }

FileIds == { h.file_id : h \in FileHits }

\* chunks iter_content may yield; the empty one is a keep-alive chunk
ChunkPool == { << >>, << 1 >>, << 2, 3 >> }

\* the bodies the data endpoint serves during a run of main
MainStreams == { << >>, << << 1 >>, << >>, << 2, 3 >> >> }

EmptyFS == [dirs |-> {}, files |-> << >>]
\* what an earlier run with --download left behind
UsedFS  == [dirs  |-> { mafs, join(SEP, << mafs, TCGA \o << "A" >> >>) },
            files |-> (join(SEP, << mafs, TCGA \o << "A" >>, << "x" >> >>) :> << 9 >>)]
InitFS  == { EmptyFS, UsedFS }

----------------------------------------------------------------------------
(* An uncaught exception ends the process; a with block closes its file. *)

Raise(at) == /\ pc' = "crashed"
             /\ raised_at' = at

Log(event) == trace' = Append(trace, event)

----------------------------------------------------------------------------
(* main *)

\* a payload that lost its access clause
payload_no_access(p) ==
    [ filters |->
        [ op |-> "and",
          content |-> <<
            [ op |-> "=", content |-> [ field |-> "cases.project.project_id", value |-> p ] ],
            [ op |-> "=", content |-> [ field |-> "files.data_format", value |-> << "MAF" >> ] ] >> ],
      format |-> "json",
      fields |-> "file_id,file_name,file_size,md5sum",
      size   |-> "1000" ]

\* lines 21-51
payload(p) ==
    [ filters |->
        [ op |-> "and",
          content |-> <<
            [ op |-> "=", content |-> [ field |-> "cases.project.project_id", value |-> p ] ],
            [ op |-> "=", content |-> [ field |-> "files.data_format", value |-> << "MAF" >> ] ],
            [ op |-> "=", content |-> [ field |-> "access", value |-> << "open" >> ] ] >> ],
      format |-> "json",
      fields |-> "file_id,file_name,file_size,md5sum",
      size   |-> "1000" ]

\* line 17: [ d for d in ids if d.startswith('TCGA-') ]
RECURSIVE filter_tcga(_)
filter_tcga(ids) ==
    IF ids = << >> THEN << >>
    ELSE IF startswith(Head(ids), TCGA)
         THEN << Head(ids) >> \o filter_tcga(Tail(ids))
         ELSE filter_tcga(Tail(ids))

\* a line with the file name before the file identifier
line_swapped(p, m) == join(TAB, << p, m.file_name, m.file_id >>)

\* line 56: '\t'.join([ proj_id, maf['file_id'], maf['file_name'] ])
line(p, m) == join(TAB, << p, m.file_id, m.file_name >>)

\* a path without the project directory
path_flat(p, m) == join(SEP, << mafs, m.file_name >>)

\* line 58: '/'.join([ 'mafs', proj_id, maf['file_name'] ])
path(p, m) == join(SEP, << mafs, p, m.file_name >>)

\* line 15: POST to the project endpoint
ListProjects ==
    /\ pc = "start"
    /\ Log(<< "POST", proj_ep, [size |-> "1000", fields |-> "project_id"] >>)
    /\ \/ /\ \E r \in ProjectResponses : response' = r
          /\ pc' = "extract"
          /\ UNCHANGED raised_at
       \/ /\ Raise("ListProjects")
          /\ UNCHANGED response
    /\ UNCHANGED << download, server, stack, proj_ids, pi, proj_id, hits, mi, maf,
                    dlVars, fsVars, open_responses >>

\* line 16: [ d['project_id'] for d in response.json()['data']['hits'] ]
ExtractIds ==
    /\ pc = "extract"
    /\ IF /\ "data" \in DOMAIN response
          /\ \A i \in DOMAIN response.data.hits : "project_id" \in DOMAIN response.data.hits[i]
       THEN /\ proj_ids' = [i \in DOMAIN response.data.hits |-> response.data.hits[i].project_id]
            /\ pc' = "filter"
            /\ UNCHANGED raised_at
       ELSE /\ Raise("ExtractIds")
            /\ UNCHANGED proj_ids
    /\ UNCHANGED << download, server, stack, response, pi, proj_id, hits, mi, maf,
                    dlVars, fsVars, open_responses, trace >>

\* line 17
FilterIds ==
    /\ pc = "filter"
    /\ proj_ids' = filter_tcga(proj_ids)
    /\ pi' = 1
    /\ pc' = "for_proj"
    /\ UNCHANGED << download, server, stack, raised_at, response, proj_id, hits, mi, maf,
                    dlVars, fsVars, open_responses, trace >>

\* line 20: the next project, or the end of main when the list is exhausted
ForProj ==
    /\ pc = "for_proj"
    /\ IF pi <= Len(proj_ids)
       THEN /\ proj_id' = proj_ids[pi]
            /\ pc' = "search"
       ELSE /\ pc' = "returned"
            /\ UNCHANGED proj_id
    /\ UNCHANGED << download, server, stack, raised_at, response, proj_ids, pi, hits, mi, maf,
                    dlVars, fsVars, open_responses, trace >>

\* lines 21-53: POST the payload to the file endpoint
SearchFiles ==
    /\ pc = "search"
    /\ Log(<< "POST", file_ep, payload(proj_id) >>)
    /\ \/ /\ \E r \in FileResponses : response' = r
          /\ pc' = "hits"
          /\ UNCHANGED raised_at
       \/ /\ Raise("SearchFiles")
          /\ UNCHANGED response
    /\ UNCHANGED << download, server, stack, proj_ids, pi, proj_id, hits, mi, maf,
                    dlVars, fsVars, open_responses >>

\* a loop that announces the project before its files
ParseHits_header ==
    /\ pc = "hits"
    /\ IF "data" \in DOMAIN response
       THEN /\ hits' = response.data.hits
            /\ mi' = 1
            /\ pc' = "for_maf"
            /\ Log(<< "print", proj_id >>)
            /\ UNCHANGED raised_at
       ELSE /\ Raise("ParseHits")
            /\ UNCHANGED << hits, mi, trace >>
    /\ UNCHANGED << download, server, stack, response, proj_ids, pi, proj_id, maf,
                    dlVars, fsVars, open_responses >>

\* line 54: response.json()['data']['hits'], evaluated once
ParseHits ==
    /\ pc = "hits"
    /\ IF "data" \in DOMAIN response
       THEN /\ hits' = response.data.hits
            /\ mi' = 1
            /\ pc' = "for_maf"
            /\ UNCHANGED raised_at
       ELSE /\ Raise("ParseHits")
            /\ UNCHANGED << hits, mi >>
    /\ UNCHANGED << download, server, stack, response, proj_ids, pi, proj_id, maf,
                    dlVars, fsVars, open_responses, trace >>

\* line 54: the next record, or line 60 when the list is exhausted
ForMaf ==
    /\ pc = "for_maf"
    /\ IF mi <= Len(hits)
       THEN /\ maf' = hits[mi]
            /\ pc' = "print"
       ELSE /\ pc' = "exit"
            /\ UNCHANGED maf
    /\ UNCHANGED << download, server, stack, raised_at, response, proj_ids, pi, proj_id,
                    hits, mi, dlVars, fsVars, open_responses, trace >>

\* line 56
PrintMaf ==
    /\ pc = "print"
    /\ IF { "file_id", "file_name" } \subseteq DOMAIN maf
       THEN /\ Log(<< "print", line(proj_id, maf) >>)
            /\ pc' = "if_download"
            /\ UNCHANGED raised_at
       ELSE /\ Raise("PrintMaf")
            /\ UNCHANGED trace
    /\ UNCHANGED << download, server, stack, mainVars, dlVars, fsVars, open_responses >>

\* a call of download_file that does not look at the flag
IfDownload_always ==
    /\ pc = "if_download"
    /\ file_id' = maf.file_id
    /\ filepath' = path(proj_id, maf)
    /\ stack' = << "next_maf" >> \o stack
    /\ pc' = "dl_get"
    /\ UNCHANGED << download, server, raised_at, mainVars, directory, stream,
                    fsVars, open_responses, trace >>

\* lines 57-58: call download_file when --download was given
IfDownload ==
    /\ pc = "if_download"
    /\ IF download
       THEN /\ file_id' = maf.file_id
            /\ filepath' = path(proj_id, maf)
            /\ stack' = << "next_maf" >> \o stack
            /\ pc' = "dl_get"
       ELSE /\ pc' = "next_maf"
            /\ UNCHANGED << file_id, filepath, stack >>
    /\ UNCHANGED << download, server, raised_at, mainVars, directory, stream,
                    fsVars, open_responses, trace >>

\* line 54: the loop advances
NextMaf ==
    /\ pc = "next_maf"
    /\ mi' = mi + 1
    /\ pc' = "for_maf"
    /\ UNCHANGED << download, server, stack, raised_at, response, proj_ids, pi, proj_id,
                    hits, maf, dlVars, fsVars, open_responses, trace >>

\* line 60: exit( 0 ), inside the project loop
Exit ==
    /\ pc = "exit"
    /\ pc' = "exited"
    /\ UNCHANGED << download, server, stack, raised_at, mainVars, dlVars, fsVars,
                    open_responses, trace >>

----------------------------------------------------------------------------
(* download_file *)

\* the file system after open( p, 'wb' ): p exists and is empty
truncated(p) == [q \in DOMAIN files \cup {p} |-> IF q = p THEN << >> ELSE files[q]]

\* a write that starts from the beginning of the file each time
written_over(p, chunk) == [files EXCEPT ![p] = chunk]

\* the file system after fh.write( chunk ) on p
written(p, chunk) == [files EXCEPT ![p] = files[p] \o chunk]

\* line 75: if chunk
nonempty(chunk) == chunk # << >>

\* line 66: requests.get( data_ep + file_id, stream=True )
DlGet ==
    /\ pc = "dl_get"
    /\ Log(<< "GET", data_ep \o file_id >>)
    /\ \/ /\ stream' = server[file_id]
          /\ open_responses' = Append(open_responses, file_id)
          /\ pc' = "dl_dir"
          /\ UNCHANGED raised_at
       \/ /\ Raise("DlGet")
          /\ UNCHANGED << stream, open_responses >>
    /\ UNCHANGED << download, server, stack, mainVars, file_id, filepath, directory, fsVars >>

\* lines 69-71: os.makedirs fails when a regular file is in the way
DlMakedirs ==
    /\ pc = "dl_dir"
    /\ directory' = dirname(filepath)
    /\ IF exists(directory')
       THEN /\ pc' = "dl_open"
            /\ UNCHANGED << dirs, raised_at, trace >>
       ELSE \/ /\ ancestors(directory') \cap DOMAIN files = {}
               /\ dirs' = dirs \cup ancestors(directory')
               /\ Log(<< "makedirs", directory' >>)
               /\ pc' = "dl_open"
               /\ UNCHANGED raised_at
            \/ /\ Raise("DlMakedirs")
               /\ UNCHANGED << dirs, trace >>
    /\ UNCHANGED << download, server, stack, mainVars, file_id, filepath, stream,
                    files, open_fhs, open_responses >>

\* line 73: open( filepath, 'wb' ) fails on a directory or under a regular file
DlOpen ==
    /\ pc = "dl_open"
    /\ \/ /\ directory \in dirs
          /\ filepath \notin dirs
          /\ files' = truncated(filepath)
          /\ open_fhs' = Append(open_fhs, filepath)
          /\ Log(<< "open", filepath >>)
          /\ pc' = "dl_iter"
          /\ UNCHANGED raised_at
       \/ /\ Raise("DlOpen")
          /\ UNCHANGED << files, open_fhs, trace >>
    /\ UNCHANGED << download, server, stack, mainVars, dlVars, dirs, open_responses >>

\* a loop that removes the partial file when the stream breaks
DlChunk_cleanup ==
    /\ pc = "dl_iter"
    /\ stream # << >>
    /\ \/ /\ stream' = Tail(stream)
          /\ IF nonempty(Head(stream))
             THEN /\ files' = written(filepath, Head(stream))
                  /\ Log(<< "write", filepath, Head(stream) >>)
             ELSE UNCHANGED << files, trace >>
          /\ UNCHANGED << pc, raised_at, open_fhs >>
       \/ /\ Raise("DlChunk")
          /\ open_fhs' = SubSeq(open_fhs, 1, Len(open_fhs) - 1)
          /\ Log(<< "close", filepath >>)
          /\ files' = [q \in DOMAIN files \ {filepath} |-> files[q]]
          /\ UNCHANGED stream
    /\ UNCHANGED << download, server, stack, mainVars, file_id, filepath, directory,
                    dirs, open_responses >>

\* lines 74-76: one chunk of the stream; an exception leaves the with block,
\* which closes the file, and skips response.close()
DlChunk ==
    /\ pc = "dl_iter"
    /\ stream # << >>
    /\ \/ /\ stream' = Tail(stream)
          /\ IF nonempty(Head(stream))
             THEN /\ files' = written(filepath, Head(stream))
                  /\ Log(<< "write", filepath, Head(stream) >>)
             ELSE UNCHANGED << files, trace >>
          /\ UNCHANGED << pc, raised_at, open_fhs >>
       \/ /\ Raise("DlChunk")
          /\ open_fhs' = SubSeq(open_fhs, 1, Len(open_fhs) - 1)
          /\ Log(<< "close", filepath >>)
          /\ UNCHANGED << stream, files >>
    /\ UNCHANGED << download, server, stack, mainVars, file_id, filepath, directory,
                    dirs, open_responses >>

\* lines 73-76: the stream is exhausted and the with block closes the file
DlEndWith ==
    /\ pc = "dl_iter"
    /\ stream = << >>
    /\ open_fhs' = SubSeq(open_fhs, 1, Len(open_fhs) - 1)
    /\ Log(<< "close", filepath >>)
    /\ pc' = "dl_close"
    /\ UNCHANGED << download, server, stack, raised_at, mainVars, dlVars, dirs, files,
                    open_responses >>

\* a download that leaves its response open
DlCloseResponse_skip ==
    /\ pc = "dl_close"
    /\ pc' = "dl_return"
    /\ UNCHANGED << download, server, stack, raised_at, mainVars, dlVars, fsVars,
                    open_responses, trace >>

\* line 77: response.close()
DlCloseResponse ==
    /\ pc = "dl_close"
    /\ open_responses' = SubSeq(open_responses, 1, Len(open_responses) - 1)
    /\ Log(<< "response.close", file_id >>)
    /\ pc' = "dl_return"
    /\ UNCHANGED << download, server, stack, raised_at, mainVars, dlVars, fsVars >>

\* line 78: back to the caller, if the model has one
DlReturn ==
    /\ pc = "dl_return"
    /\ IF stack = << >>
       THEN pc' = "dl_returned" /\ UNCHANGED stack
       ELSE pc' = Head(stack) /\ stack' = Tail(stack)
    /\ UNCHANGED << download, server, raised_at, mainVars, dlVars, fsVars,
                    open_responses, trace >>

----------------------------------------------------------------------------
(* The script run from the command line. *)

Init ==
    /\ download \in BOOLEAN
    /\ server \in [FileIds -> MainStreams]
    /\ pc = "start"
    /\ stack = << >>
    /\ raised_at = ""
    /\ response = None
    /\ proj_ids = << >>
    /\ pi = 0
    /\ proj_id = << >>
    /\ hits = << >>
    /\ mi = 0
    /\ maf = None
    /\ file_id = << >>
    /\ filepath = << >>
    /\ directory = << >>
    /\ stream = << >>
    /\ \E fs \in InitFS : dirs = fs.dirs /\ files = fs.files
    /\ open_fhs = << >>
    /\ open_responses = << >>
    /\ trace = << >>

Next ==
    \/ ListProjects \/ ExtractIds \/ FilterIds \/ ForProj \/ SearchFiles \/ ParseHits
    \/ ForMaf \/ PrintMaf \/ IfDownload \/ NextMaf \/ Exit
    \/ DlGet \/ DlMakedirs \/ DlOpen \/ DlChunk \/ DlEndWith \/ DlCloseResponse \/ DlReturn

Spec == Init /\ [][Next]_vars

(* download_file called on its own, on any stream of chunks. *)

InitDownload ==
    /\ download = TRUE
    /\ server \in { [f \in FileIds |-> s] : s \in SeqUpTo(ChunkPool, MaxChunks) }
    /\ pc = "dl_get"
    /\ stack = << >>
    /\ raised_at = ""
    /\ response = None
    /\ proj_ids = << >>
    /\ pi = 0
    /\ proj_id = << >>
    /\ hits = << >>
    /\ mi = 0
    /\ maf = None
    /\ file_id \in FileIds
    /\ \E h \in FileHits : /\ "file_name" \in DOMAIN h
                           /\ filepath = path(TCGA \o << "A" >>, h)
    /\ directory = << >>
    /\ stream = << >>
    /\ \E fs \in InitFS : dirs = fs.dirs /\ files = fs.files
    /\ open_fhs = << >>
    /\ open_responses = << >>
    /\ trace = << >>

NextDownload ==
    \/ DlGet \/ DlMakedirs \/ DlOpen \/ DlChunk \/ DlEndWith \/ DlCloseResponse \/ DlReturn

SpecDownload == InitDownload /\ [][NextDownload]_vars

----------------------------------------------------------------------------
(* Views of the trace used by the properties. *)

IsPrint(e)  == e[1] = "print"
IsSearch(e) == e[1] = "POST" /\ e[2] = file_ep
IsGet(e)    == e[1] = "GET"
IsWrite(e)  == e[1] = "write"
IsFsOp(e)   == e[1] \in { "makedirs", "open", "write", "close" }

Prints   == SelectSeq(trace, IsPrint)     \* print events, in order
Searches == SelectSeq(trace, IsSearch)    \* file-search requests, in order
Gets     == SelectSeq(trace, IsGet)       \* requests to the data endpoint, in order
Writes   == SelectSeq(trace, IsWrite)     \* fh.write calls, in order

\* the positions of the events of a kind in the trace
At(op) == { i \in DOMAIN trace : trace[i][1] = op }

\* the project a file-search request asks for
SearchedProject(e) == e[3].filters.content[1].content.value

InMain     == pc \in { "start", "extract", "filter", "for_proj", "search", "hits", "for_maf",
                       "print", "if_download", "next_maf", "exit", "exited", "returned" }
InDownload == pc \in { "dl_get", "dl_dir", "dl_open", "dl_iter", "dl_close", "dl_return" }
Finished   == pc \in { "exited", "returned" }

----------------------------------------------------------------------------
(* C1: when main ends normally, a file-search request has been issued for  *)
(* every retained project identifier, in the order retained.               *)
C1_EveryProjectSearched ==
    Finished =>
        /\ Len(Searches) = Len(proj_ids)
        /\ \A k \in DOMAIN proj_ids : SearchedProject(Searches[k]) = proj_ids[k]

(* C2: after line 17 proj_ids is exactly the subsequence, in the server's  *)
(* order, of the returned identifiers whose first five characters are      *)
(* T, C, G, A, - ; and no file-search request names another identifier.    *)
C2_PrefixFilter ==
    /\ pc = "for_proj" =>
         LET ids  == [i \in DOMAIN response.data.hits |-> response.data.hits[i].project_id]
             keep == { i \in DOMAIN ids :
                         /\ Len(ids[i]) >= 5
                         /\ SubSeq(ids[i], 1, 5) = << "T", "C", "G", "A", "-" >> }
             rank(i) == Cardinality({ j \in keep : j <= i })
         IN  /\ Len(proj_ids) = Cardinality(keep)
             /\ \A i \in keep : proj_ids[rank(i)] = ids[i]
    /\ \A k \in DOMAIN Searches :
         LET v == SearchedProject(Searches[k])
         IN  /\ Len(v) >= 5
             /\ SubSeq(v, 1, 5) = << "T", "C", "G", "A", "-" >>

C2_Witness ==
    /\ pc = "for_proj"
    /\ Len(response.data.hits) = 2
    /\ response.data.hits[1].project_id = << "t", "c", "g", "a", "-", "A" >>
    /\ proj_ids = << << "T", "C", "G", "A", "-", "B" >> >>

(* C3: the printed lines are, in the server's order, project identifier,   *)
(* TAB, file identifier, TAB, file name of the records handled so far, one *)
(* line per record, and of all records once the project is done.           *)
C3_OneLinePerRecord ==
    /\ Len(Prints) <= Len(hits)
    /\ \A k \in DOMAIN Prints :
         Prints[k][2] = proj_id \o << "\t" >> \o hits[k].file_id
                                \o << "\t" >> \o hits[k].file_name
    /\ pc \in { "exit", "exited" } => Len(Prints) = Len(hits)

C3_Witness ==
    /\ pc = "exited"
    /\ Len(hits) = 2
    /\ hits[1] # hits[2]
    /\ Len(Prints) = 2

(* C4: without the download flag the file system is the one the run        *)
(* started on, nothing is open, download_file is never entered and no GET, *)
(* makedirs, open or write happens.                                        *)
C4_NoDownloadNoWrites ==
    ~download =>
        /\ [dirs |-> dirs, files |-> files] \in InitFS
        /\ \A i \in DOMAIN trace : ~IsGet(trace[i]) /\ ~IsFsOp(trace[i])
        /\ open_fhs = << >> /\ open_responses = << >>
        /\ ~InDownload
        /\ raised_at \notin { "DlGet", "DlMakedirs", "DlOpen", "DlChunk" }

C4_Witness ==
    /\ ~download
    /\ pc = "exited"
    /\ Len(hits) = 2
    /\ Len(Prints) = 2

(* C5: with the download flag, download_file is entered once per record    *)
(* handled, in order, with the record's identifier and mafs/P/N; past      *)
(* lines 69-71 mafs/P and mafs exist; past the loop the file holds the     *)
(* whole body the server streams for the identifier.                       *)
C5_DownloadEachFile ==
    download =>
        /\ Len(Gets) = Len(Prints) - (IF pc \in { "if_download", "dl_get" } THEN 1 ELSE 0)
        /\ \A k \in DOMAIN Gets :
             Gets[k][2] = << "https://gdc-api.nci.nih.gov/legacy/data/" >> \o hits[k].file_id
        /\ pc \in { "exit", "exited" } => Len(Gets) = Len(hits)
        /\ InDownload =>
             /\ file_id = hits[mi].file_id
             /\ filepath = << "mafs", "/" >> \o proj_id \o << "/" >> \o hits[mi].file_name
        /\ pc \in { "dl_open", "dl_iter", "dl_close", "dl_return" } =>
             { << "mafs" >>, << "mafs", "/" >> \o proj_id } \subseteq dirs
        /\ pc \in { "dl_close", "dl_return" } =>
             /\ filepath \in DOMAIN files
             /\ files[filepath] = concat(server[file_id])

C5_Witness ==
    /\ download
    /\ pc = "dl_return"
    /\ mi = 2
    /\ hits[1] # hits[2]
    /\ At("makedirs") # {}
    /\ files[filepath] = << 1, 2, 3 >>

(* C6: every file-search request carries the AND of exactly three equality *)
(* clauses: project identifier = the project of that iteration, data       *)
(* format = MAF, access = open.                                            *)
C6_ThreeClauses ==
    /\ Len(Searches) <= Len(proj_ids)
    /\ \A k \in DOMAIN Searches :
         LET f == Searches[k][3].filters
         IN  /\ f.op = "and"
             /\ Len(f.content) = 3
             /\ \A j \in 1..3 : f.content[j].op = "="
             /\ f.content[1].content = [field |-> "cases.project.project_id",
                                        value |-> proj_ids[k]]
             /\ f.content[2].content = [field |-> "files.data_format", value |-> << "MAF" >>]
             /\ f.content[3].content = [field |-> "access", value |-> << "open" >>]

C6_Witness ==
    /\ Len(Searches) = 1
    /\ Len(proj_ids) = 2
    /\ proj_ids[1] # proj_ids[2]
    /\ pc = "exited"

(* C7: a project whose file-search response has no hits ends with no line  *)
(* printed, no download_file call and nothing done to the file system.     *)
C7_ZeroHits ==
    (pc \in { "for_maf", "exit", "exited" } /\ hits = << >>) =>
        /\ Prints = << >>
        /\ Gets = << >>
        /\ \A i \in DOMAIN trace : ~IsFsOp(trace[i])

C7_Witness ==
    /\ pc = "exited"
    /\ hits = << >>
    /\ download
    /\ response = [data |-> [hits |-> << >>]]

(* C8: an exception ends the process for good and undoes nothing: the step *)
(* that raises prints nothing, leaves every directory and file as it was   *)
(* (a broken download leaves its truncated file) and logs at most the      *)
(* failed request or the closing of the open file; no step follows it; a   *)
(* malformed response is never survived; and a failure of the project-list *)
(* stage leaves no file-search request, no line and no download behind.    *)
C8_FailuresAreFatal ==
    /\ [][pc = "crashed" => UNCHANGED vars]_vars
    /\ [][(pc # "crashed" /\ pc' = "crashed") =>
             /\ Prints' = Prints
             /\ dirs' = dirs /\ files' = files
             /\ \/ trace' = trace
                \/ /\ Len(trace') = Len(trace) + 1
                   /\ SubSeq(trace', 1, Len(trace)) = trace
                   /\ trace'[Len(trace')][1] \in { "POST", "GET", "close" }]_vars
    /\ [](/\ (pc = "crashed") <=> (raised_at # "")
          /\ (response = Malformed /\ pc \notin { "extract", "hits" }) => pc = "crashed"
          /\ ( /\ Searches = << >>
               /\ "data" \in DOMAIN response
               /\ \E i \in DOMAIN response.data.hits :
                      "project_id" \notin DOMAIN response.data.hits[i]
               /\ pc # "extract" ) => pc = "crashed"
          /\ raised_at \in { "ListProjects", "ExtractIds" } =>
               /\ Searches = << >> /\ Prints = << >> /\ Gets = << >>
               /\ \A i \in DOMAIN trace : ~IsFsOp(trace[i])
               /\ Len(trace) = 1)

C8_Witness ==
    /\ pc = "crashed"
    /\ raised_at = "DlChunk"
    /\ mi = 2
    /\ Len(Prints) = 2
    /\ hits[1] # hits[2]
    /\ files[filepath] = << 1 >>
    /\ files[path(proj_id, hits[1])] = << 1, 2, 3 >>
    /\ open_fhs = << >>

(* C9: download_file writes exactly the non-empty chunks of the stream, in *)
(* arrival order, so that the file holds their concatenation; it opens the *)
(* file once, closes it after the last write, and closes the response      *)
(* after that.                                                             *)
C9_StreamCopy ==
    LET body     == server[file_id]
        arrived  == SubSeq(body, 1, Len(body) - Len(stream))
        full(c)  == Len(c) > 0
        expected == SelectSeq(arrived, full)
    IN  /\ Cardinality(At("open")) <= 1
        /\ Cardinality(At("close")) <= 1
        /\ Cardinality(At("response.close")) <= 1
        /\ \A o \in At("open"), w \in At("write") : o < w
        /\ \A w \in At("write"), c \in At("close") : w < c
        /\ \A c \in At("close"), r \in At("response.close") : c < r
        /\ (pc \in { "dl_iter", "dl_close", "dl_return", "dl_returned" }
              \/ raised_at = "DlChunk") =>
             /\ Cardinality(At("open")) = 1
             /\ Len(Writes) = Len(expected)
             /\ \A k \in DOMAIN Writes : Writes[k] = << "write", filepath, expected[k] >>
             /\ files[filepath] = concat(expected)
        /\ pc \in { "dl_close", "dl_return", "dl_returned" } =>
             /\ stream = << >>
             /\ Cardinality(At("close")) = 1
             /\ open_fhs = << >>
        /\ pc \in { "dl_return", "dl_returned" } =>
             /\ Cardinality(At("response.close")) = 1
             /\ open_responses = << >>
        /\ pc \in { "dl_get", "dl_dir", "dl_open", "dl_iter", "dl_close" } =>
             At("response.close") = {}

C9_Witness ==
    /\ pc = "dl_returned"
    /\ server[file_id] = << << 2, 3 >>, << >>, << 1 >> >>
    /\ files[filepath] = << 2, 3, 1 >>
    /\ Len(Writes) = 2

(* C10: with the download flag, at most one file and one response are open *)
(* and none is while main runs; a GET directly follows the print of its    *)
(* record, every later print directly follows a response.close, and that   *)
(* directly follows the closing of the file.                               *)
C10_Sequential ==
    download =>
        /\ Len(open_fhs) <= 1
        /\ Len(open_responses) <= 1
        /\ Len(stack) <= 1
        /\ InMain => open_fhs = << >> /\ open_responses = << >> /\ stack = << >>
        /\ \A i \in DOMAIN trace :
             /\ IsGet(trace[i]) => i > 1 /\ IsPrint(trace[i-1])
             /\ (IsPrint(trace[i]) /\ \E j \in 1..(i-1) : IsPrint(trace[j])) =>
                    trace[i-1][1] = "response.close"
             /\ trace[i][1] = "response.close" => trace[i-1][1] = "close"

C10_Witness ==
    /\ download
    /\ pc = "if_download"
    /\ mi = 2
    /\ Len(Prints) = 2
    /\ Cardinality(At("response.close")) = 1
    /\ Cardinality(At("write")) = 2

====
